---- MODULE Spec2Model ----
(***************************************************************************)
(* dfmon (src/main.go): read /proc/mounts, filter by filesystem type,      *)
(* statfs every remaining mount, sort, render.  One main goroutine runs    *)
(* the pipeline; one listener goroutine turns SIGINT/SIGTERM into the      *)
(* cancellation of a context that analyze polls once per mount.            *)
(*                                                                         *)
(* Representation.                                                         *)
(*  - A Go string is a sequence of one-character strings; ByteOf gives the *)
(*    byte value that Go's string comparison orders by.                    *)
(*  - A uint64 is a little-endian sequence of base-256 limbs without       *)
(*    leading zero limbs (<<>> is 0), so that products and differences     *)
(*    wrap at 2^64 exactly as in the program.                              *)
(*  - A float64 is a record [k, n, d]: k = "fin" is the non-negative       *)
(*    rational n/d, k = "inf" is +Inf, k = "nan" is NaN.  Rounding of the  *)
(*    53-bit mantissa is not modelled: the quotient is kept exact.         *)
(***************************************************************************)
EXTENDS Integers, Sequences, FiniteSets, TLC

(***************************************************************************)
(* Bounds of the model.                                                    *)
(***************************************************************************)
\* longest mount table (lines of /proc/mounts) of the pipeline specification
MaxMounts == 3
\* signals the environment delivers during one run
MaxSignals == 2
\* longest mount table of the sorting specification: 7 is the shortest slice
\* on which the ShellSort pass of Go 1.18 and earlier compares anything
MaxSortLen == 7
\* longest mount table of the filtering specification
MaxFilterMounts == 2
\* longest -x argument of the filtering specification, in bytes
MaxExcludeLen == 3

(***************************************************************************)
(* Strings.                                                                *)
(***************************************************************************)
ByteOf(c) ==
    CASE c = "," -> 44
      [] c = "/" -> 47
      [] c = "0" -> 48
      [] c = "1" -> 49
      [] c = "a" -> 97
      [] c = "b" -> 98
      [] c = "e" -> 101
      [] c = "p" -> 112
      [] c = "t" -> 116
      [] c = "z" -> 122

\* Go's s < t on strings: bytewise lexicographic, a proper prefix is smaller
RECURSIVE StrLess(_, _)
StrLess(s, t) ==
    IF t = <<>> THEN FALSE
    ELSE IF s = <<>> THEN TRUE
    ELSE IF ByteOf(Head(s)) # ByteOf(Head(t)) THEN ByteOf(Head(s)) < ByteOf(Head(t))
    ELSE StrLess(Tail(s), Tail(t))

\* strings.Split(s, sep) for a one-byte separator: always at least one piece
RECURSIVE SplitFrom(_, _, _)
SplitFrom(s, sep, cur) ==
    IF s = <<>> THEN <<cur>>
    ELSE IF Head(s) = sep THEN <<cur>> \o SplitFrom(Tail(s), sep, <<>>)
    ELSE SplitFrom(Tail(s), sep, Append(cur, Head(s)))

Split(s, sep) == SplitFrom(s, sep, <<>>)

(***************************************************************************)
(* Unsigned 64-bit integers.                                               *)
(***************************************************************************)
RECURSIVE Trim(_)
Trim(a) ==
    IF a = <<>> THEN a
    ELSE IF a[Len(a)] = 0 THEN Trim(SubSeq(a, 1, Len(a) - 1))
    ELSE a

RECURSIVE NatToBig(_)
NatToBig(n) == IF n = 0 THEN <<>> ELSE <<n % 256>> \o NatToBig(n \div 256)

Limb(a, i) == IF i <= Len(a) THEN a[i] ELSE 0

RECURSIVE AddFrom(_, _, _, _)
AddFrom(a, b, i, carry) ==
    IF i > Len(a) /\ i > Len(b)
    THEN (IF carry = 0 THEN <<>> ELSE <<carry>>)
    ELSE LET s == Limb(a, i) + Limb(b, i) + carry
         IN  <<s % 256>> \o AddFrom(a, b, i + 1, s \div 256)

BigAdd(a, b) == AddFrom(a, b, 1, 0)

RECURSIVE SubFrom(_, _, _, _)
SubFrom(a, b, i, borrow) ==
    IF i > Len(a) THEN <<>>
    ELSE LET d == Limb(a, i) - Limb(b, i) - borrow
         IN  IF d < 0 THEN <<d + 256>> \o SubFrom(a, b, i + 1, 1)
             ELSE <<d>> \o SubFrom(a, b, i + 1, 0)

\* a - b for a >= b
BigSub(a, b) == Trim(SubFrom(a, b, 1, 0))

RECURSIVE ScaleFrom(_, _, _, _)
ScaleFrom(a, m, i, carry) ==
    IF i > Len(a) THEN (IF carry = 0 THEN <<>> ELSE <<carry>>)
    ELSE LET p == a[i] * m + carry
         IN  <<p % 256>> \o ScaleFrom(a, m, i + 1, p \div 256)

RECURSIVE BigMul(_, _)
BigMul(a, b) ==
    IF a = <<>> \/ b = <<>> THEN <<>>
    ELSE Trim(BigAdd(ScaleFrom(a, b[1], 1, 0), <<0>> \o BigMul(a, Tail(b))))

\* -1, 0, 1 as a < b, a = b, a > b
RECURSIVE CmpFrom(_, _, _)
CmpFrom(a, b, i) ==
    IF i = 0 THEN 0
    ELSE IF a[i] < b[i] THEN -1
    ELSE IF a[i] > b[i] THEN 1
    ELSE CmpFrom(a, b, i - 1)

BigCmp(a, b) ==
    IF Len(a) < Len(b) THEN -1
    ELSE IF Len(a) > Len(b) THEN 1
    ELSE CmpFrom(a, b, Len(a))

\* 2^64
TwoTo64 == <<0, 0, 0, 0, 0, 0, 0, 0, 1>>

\* the value modulo 2^64: the low eight limbs
Wrap64(a) == Trim(SubSeq(a, 1, IF Len(a) < 8 THEN Len(a) ELSE 8))

\* uint64 * uint64
U64Mul(a, b) == Wrap64(BigMul(a, b))

\* uint64 - uint64
U64Sub(a, b) ==
    IF BigCmp(a, b) >= 0 THEN BigSub(a, b)
    ELSE BigSub(BigAdd(a, TwoTo64), b)

(***************************************************************************)
(* float64.                                                                *)
(***************************************************************************)
FNat(n) == [k |-> "fin", n |-> NatToBig(n), d |-> <<1>>]

\* float64(x) of a uint64 x
FOfU64(x) == [k |-> "fin", n |-> x, d |-> <<1>>]

\* x / y on non-negative float64: 0/0 is NaN, x/0 is +Inf
FDiv(x, y) ==
    IF x.k = "nan" \/ y.k = "nan" THEN [k |-> "nan", n |-> <<>>, d |-> <<1>>]
    ELSE IF x.k = "inf"
         THEN (IF y.k = "inf" THEN [k |-> "nan", n |-> <<>>, d |-> <<1>>] ELSE x)
    ELSE IF y.k = "inf" THEN FNat(0)
    ELSE IF y.n = <<>>
         THEN (IF x.n = <<>> THEN [k |-> "nan", n |-> <<>>, d |-> <<1>>]
               ELSE [k |-> "inf", n |-> <<>>, d |-> <<1>>])
    ELSE [k |-> "fin", n |-> BigMul(x.n, y.d), d |-> BigMul(x.d, y.n)]

\* x * y on non-negative float64
FMul(x, y) ==
    IF x.k = "nan" \/ y.k = "nan" THEN [k |-> "nan", n |-> <<>>, d |-> <<1>>]
    ELSE IF x.k = "inf" \/ y.k = "inf"
         THEN (IF (x.k = "fin" /\ x.n = <<>>) \/ (y.k = "fin" /\ y.n = <<>>)
               THEN [k |-> "nan", n |-> <<>>, d |-> <<1>>]
               ELSE [k |-> "inf", n |-> <<>>, d |-> <<1>>])
    ELSE [k |-> "fin", n |-> BigMul(x.n, y.n), d |-> BigMul(x.d, y.d)]

\* x > y: false as soon as one side is NaN
FGt(x, y) ==
    IF x.k = "nan" \/ y.k = "nan" THEN FALSE
    ELSE IF y.k = "inf" THEN FALSE
    ELSE IF x.k = "inf" THEN TRUE
    ELSE BigCmp(BigMul(x.n, y.d), BigMul(y.n, x.d)) > 0

\* x >= y: false as soon as one side is NaN
FGeq(x, y) ==
    IF x.k = "nan" \/ y.k = "nan" THEN FALSE
    ELSE IF x.k = "inf" THEN TRUE
    ELSE IF y.k = "inf" THEN FALSE
    ELSE BigCmp(BigMul(x.n, y.d), BigMul(y.n, x.d)) >= 0

\* x == y
FEq(x, y) == FGeq(x, y) /\ FGeq(y, x)

(***************************************************************************)
(* Types of the program (src/main.go 18-53).                               *)
(***************************************************************************)
\* ColorScheme value Colors: the escape sequences, ESC written as "\\033"
Colors ==
    [Low      |-> "\\033[32m",
     Medium   |-> "\\033[33m",
     High     |-> "\\033[31m",
     Critical |-> "\\033[31;1m",
     Reset    |-> "\\033[0m"]

\* the type names -x excludes unless told otherwise, shortened to one letter
\* each: "p,t" stands for "proc,sysfs,devtmpfs,tmpfs,cgroup,devpts"
DefaultExcludeTypes == <<"p", ",", "t">>

\* parseFlags with no flag given
DefaultConfig ==
    [OutputFormat  |-> "table",
     SortBy        |-> "mount",
     ExcludeTypes  |-> DefaultExcludeTypes,
     WarnThreshold |-> FNat(70),
     CritThreshold |-> FNat(90),
     NoColor       |-> FALSE]

(***************************************************************************)
(* readMounts: a line of the mount table is the sequence of its            *)
(* whitespace-separated fields (what strings.Fields returns for it).       *)
(***************************************************************************)
RECURSIVE readMounts(_)
readMounts(lines) ==
    IF lines = <<>> THEN <<>>
    ELSE LET p == Head(lines)
         IN  IF Len(p) >= 3
             THEN << <<p[1], p[2], p[3]>> >> \o readMounts(Tail(lines))
             ELSE readMounts(Tail(lines))

(***************************************************************************)
(* shouldIncludeFS, filterMounts.                                          *)
(***************************************************************************)
\* shouldIncludeFS returning true from inside the loop: only the first
\* element of the exclusion list is looked at
shouldIncludeFS_FirstOnly(fsType, excludeTypes) ==
    IF excludeTypes = <<>> THEN TRUE
    ELSE ~(Head(excludeTypes) # <<>> /\ fsType = Head(excludeTypes))

RECURSIVE shouldIncludeFS(_, _)
shouldIncludeFS(fsType, excludeTypes) ==
    IF excludeTypes = <<>> THEN TRUE
    ELSE LET ex == Head(excludeTypes)
         IN  IF ex # <<>> /\ fsType = ex THEN FALSE
             ELSE shouldIncludeFS(fsType, Tail(excludeTypes))

RECURSIVE filterMounts(_, _)
filterMounts(ms, excludeTypes) ==
    IF ms = <<>> THEN <<>>
    ELSE LET m == Head(ms)
         IN  IF shouldIncludeFS(m[3], excludeTypes)
             THEN <<m>> \o filterMounts(Tail(ms), excludeTypes)
             ELSE filterMounts(Tail(ms), excludeTypes)

(***************************************************************************)
(* analyze, the part after a successful Statfs: s is the Statfs_t          *)
(* [Blocks, Bavail : uint64, Bsize : int64 as sign and magnitude].         *)
(***************************************************************************)
\* uint64(v) of an int64 v: two's complement
U64OfInt64(v) == IF v.neg /\ v.mag # <<>> THEN BigSub(TwoTo64, v.mag) ELSE v.mag

\* usageOf without the total > 0 guard
usageOf_NoGuard(used, total) == FMul(FDiv(FOfU64(used), FOfU64(total)), FNat(100))

usageOf(used, total) ==
    IF BigCmp(total, <<>>) > 0
    THEN FMul(FDiv(FOfU64(used), FOfU64(total)), FNat(100))
    ELSE FNat(0)

statToFS(m, s) ==
    LET total == U64Mul(s.Blocks, U64OfInt64(s.Bsize))
        free  == U64Mul(s.Bavail, U64OfInt64(s.Bsize))
        used  == U64Sub(total, free)
    IN  [Device |-> m[1],
         Mount  |-> m[2],
         Type   |-> m[3],
         Total  |-> total,
         Free   |-> free,
         Used   |-> used,
         Usage  |-> usageOf(used, total)]

(***************************************************************************)
(* ColorScheme.ForUsage.                                                   *)
(***************************************************************************)
\* ForUsage comparing with > where the code compares with >=
ForUsage_Strict(c, usage, warn, crit, noColor) ==
    IF noColor THEN ""
    ELSE IF FGt(usage, crit) THEN c.Critical
    ELSE IF FGt(usage, warn) THEN c.High
    ELSE IF FGt(usage, FNat(70)) THEN c.Medium
    ELSE c.Low

\* ForUsage with the warn case before the crit case
ForUsage_WarnFirst(c, usage, warn, crit, noColor) ==
    IF noColor THEN ""
    ELSE IF FGeq(usage, warn) THEN c.High
    ELSE IF FGeq(usage, crit) THEN c.Critical
    ELSE IF FGeq(usage, FNat(70)) THEN c.Medium
    ELSE c.Low

ForUsage(c, usage, warn, crit, noColor) ==
    IF noColor THEN ""
    ELSE IF FGeq(usage, crit) THEN c.Critical
    ELSE IF FGeq(usage, warn) THEN c.High
    ELSE IF FGeq(usage, FNat(70)) THEN c.Medium
    ELSE c.Low

(***************************************************************************)
(* sortFS.  sort.Slice promises no stability; what it does depends on the  *)
(* toolchain that builds the program.  For a slice of at most 12 elements  *)
(* Go 1.19 and later run a plain insertion sort ("pdq"), Go 1.18 and       *)
(* earlier one ShellSort pass with gap 6 followed by the same insertion    *)
(* sort ("quick").  The model covers slices of at most 12 elements.        *)
(***************************************************************************)
SortImpls == {"pdq", "quick"}

\* the less closure with the default case falling back to usage
sortLess_DefaultUsage(by, a, b) ==
    CASE by = "mount" -> StrLess(a.Mount, b.Mount)
      [] by = "usage" -> FGt(a.Usage, b.Usage)
      [] by = "size"  -> BigCmp(a.Total, b.Total) > 0
      [] OTHER        -> FGt(a.Usage, b.Usage)

\* the less closure of sortFS
sortLess(by, a, b) ==
    CASE by = "mount" -> StrLess(a.Mount, b.Mount)
      [] by = "usage" -> FGt(a.Usage, b.Usage)
      [] by = "size"  -> BigCmp(a.Total, b.Total) > 0
      [] OTHER        -> StrLess(a.Mount, b.Mount)

Swap(l, i, j) == [l EXCEPT ![i] = l[j], ![j] = l[i]]

\* for j := i; j > a && less(j, j-1); j-- { swap(j, j-1) }
RECURSIVE SiftDown(_, _, _)
SiftDown(l, by, j) ==
    IF j > 1 /\ sortLess(by, l[j], l[j - 1])
    THEN SiftDown(Swap(l, j, j - 1), by, j - 1)
    ELSE l

RECURSIVE InsertionSortFrom(_, _, _)
InsertionSortFrom(l, by, i) ==
    IF i > Len(l) THEN l
    ELSE InsertionSortFrom(SiftDown(l, by, i), by, i + 1)

insertionSort(l, by) == InsertionSortFrom(l, by, 2)

\* for i := a + 6; i < b; i++ { if less(i, i-6) { swap(i, i-6) } }
RECURSIVE ShellPassFrom(_, _, _)
ShellPassFrom(l, by, i) ==
    IF i > Len(l) THEN l
    ELSE ShellPassFrom(IF sortLess(by, l[i], l[i - 6]) THEN Swap(l, i, i - 6) ELSE l,
                       by, i + 1)

sortSlice(l, by, impl) ==
    IF impl = "quick"
    THEN (IF Len(l) > 1 THEN insertionSort(ShellPassFrom(l, by, 7), by) ELSE l)
    ELSE insertionSort(l, by)

sortFS(l, by, impl) == sortSlice(l, by, impl)

(***************************************************************************)
(* display: what reaches standard output, one row per entry.  The text     *)
(* layout (column widths, fmtBytes, number formatting) is left out; a row  *)
(* keeps the entry and the escape sequences written around its usage.      *)
(***************************************************************************)
displayTable(l, cfg) ==
    [k \in 1..Len(l) |->
        LET color == ForUsage(Colors, l[k].Usage, cfg.WarnThreshold,
                              cfg.CritThreshold, cfg.NoColor)
        IN  [fs |-> l[k], color |-> color,
             reset |-> IF color # "" THEN Colors.Reset ELSE ""]]

displayPlain(l) == [k \in 1..Len(l) |-> [fs |-> l[k], color |-> "", reset |-> ""]]

display(l, cfg) ==
    CASE cfg.OutputFormat = "json" -> [format |-> "json", rows |-> displayPlain(l)]
      [] cfg.OutputFormat = "csv"  -> [format |-> "csv", rows |-> displayPlain(l)]
      [] OTHER                     -> [format |-> "table", rows |-> displayTable(l, cfg)]

(***************************************************************************)
(* State.                                                                  *)
(***************************************************************************)
VARIABLES
    config,      \* the parsed flags
    sortImpl,    \* which sort.Slice the toolchain linked in
    procMounts,  \* /proc/mounts: [kind: "missing" | "unreadable" | "ok", lines]
    osStatfs,    \* what Statfs answers for the k-th mount analyze asks about
    pc,          \* main goroutine
    lpc,         \* listener goroutine
    sigCh,       \* signals buffered in sigCh (capacity 1)
    signals,     \* signals delivered so far
    ctxDone,     \* the context is cancelled
    mounts,      \* readMounts' result
    filtered,    \* filterMounts' result
    i,           \* analyze: 1-based position in the range loop
    list,        \* analyze: the result under construction
    data,        \* main: the slice analyze returned, sorted in place
    stdout,      \* what display wrote; format "none" before
    stderr,      \* the log lines written
    statCalls,   \* history: the positions Statfs was called for, in call order
    killed,      \* the runtime ended the process on an unhandled signal
    cancelSnap,  \* history: main's pc and i when the listener called cancel;
                 \* pc "none" before
    renders      \* history: how often display ran

vars ==
    <<config, sortImpl, procMounts, osStatfs, pc, lpc, sigCh, signals, ctxDone,
      mounts, filtered, i, list, data, stdout, stderr, statCalls, killed,
      cancelSnap, renders>>

envVars == <<config, sortImpl, procMounts, osStatfs>>

mainVars == <<pc, mounts, filtered, i, list, data, stdout, stderr, statCalls, renders>>

Alive == ~killed /\ pc \notin {"fatal", "exited"}

\* signal.Notify has run: SIGINT and SIGTERM go to sigCh instead of ending
\* the process
Notified == lpc \in {"waiting", "received", "end"}

(***************************************************************************)
(* The environment a run starts in.                                        *)
(***************************************************************************)
DigitChar(k) == <<"1", "2", "3", "4", "5", "6", "7", "8", "9">>[k]

\* the k-th line of a mount table: device d<k>, then the mount point and the
\* type, then the fields readMounts ignores
MountLine(k, path, type) == <<<<"d", DigitChar(k)>>, path, type, <<"0">>, <<"0">>>>

\* a line with fewer than three fields
ShortLine(k) == <<<<"d", DigitChar(k)>>, <<"/">>>>

StatErr == [err |-> TRUE]

StatOK(blocks, bavail, bsize) ==
    [err |-> FALSE, Blocks |-> blocks, Bavail |-> bavail,
     Bsize |-> [neg |-> FALSE, mag |-> bsize]]

\* the state after construction: nothing has run yet
InitWith(cfg, impl, pm, ans) ==
    /\ config = cfg
    /\ sortImpl = impl
    /\ procMounts = pm
    /\ osStatfs = ans
    /\ pc = "start"
    /\ lpc = "none"
    /\ sigCh = 0
    /\ signals = 0
    /\ ctxDone = FALSE
    /\ mounts = <<>>
    /\ filtered = <<>>
    /\ i = 1
    /\ list = <<>>
    /\ data = <<>>
    /\ stdout = [format |-> "none", rows |-> <<>>]
    /\ stderr = <<>>
    /\ statCalls = <<>>
    /\ killed = FALSE
    /\ cancelSnap = [pc |-> "none", i |-> 0]
    /\ renders = 0

\* the mounts analyze will be given for this configuration and mount table
WillAnalyze(cfg, lines) == filterMounts(readMounts(lines), Split(cfg.ExcludeTypes, ","))

(***************************************************************************)
(* main (src/main.go 55-83).                                               *)
(***************************************************************************)
\* 59-61: os.Stat("/proc/mounts")
MainStat ==
    /\ ~killed
    /\ pc = "start"
    /\ IF procMounts.kind = "missing"
       THEN /\ pc' = "fatal"
            /\ stderr' = Append(stderr, <<"fatal", "Linux only: /proc/mounts not found">>)
       ELSE /\ pc' = "spawn"
            /\ UNCHANGED stderr
    /\ UNCHANGED <<envVars, killed, lpc, sigCh, signals, ctxDone, mounts, filtered, i, list,
                   data, stdout, statCalls, cancelSnap, renders>>

\* 63-71: context.WithCancel, go func
MainSpawn ==
    /\ ~killed
    /\ pc = "spawn"
    /\ pc' = "read"
    /\ lpc' = "started"
    /\ UNCHANGED <<envVars, killed, sigCh, signals, ctxDone, mounts, filtered, i, list, data,
                   stdout, stderr, statCalls, cancelSnap, renders>>

\* 73-76: readMounts
MainRead ==
    /\ ~killed
    /\ pc = "read"
    /\ IF procMounts.kind = "unreadable"
       THEN /\ pc' = "fatal"
            /\ stderr' = Append(stderr, <<"fatal", "Failed to read mounts">>)
            /\ UNCHANGED mounts
       ELSE /\ pc' = "filter"
            /\ mounts' = readMounts(procMounts.lines)
            /\ UNCHANGED stderr
    /\ UNCHANGED <<envVars, killed, lpc, sigCh, signals, ctxDone, filtered, i, list, data,
                   stdout, statCalls, cancelSnap, renders>>

\* 78-80: strings.Split, filterMounts, and the call of analyze
MainFilter ==
    /\ ~killed
    /\ pc = "filter"
    /\ filtered' = filterMounts(mounts, Split(config.ExcludeTypes, ","))
    /\ i' = 1
    /\ list' = <<>>
    /\ pc' = "check"
    /\ UNCHANGED <<envVars, killed, lpc, sigCh, signals, ctxDone, mounts, data, stdout, stderr,
                   statCalls, cancelSnap, renders>>

(***************************************************************************)
(* analyze (src/main.go 134-174).                                          *)
(***************************************************************************)
\* 137, 173: the range is exhausted
AnalyzeEnd ==
    /\ ~killed
    /\ pc = "check"
    /\ i > Len(filtered)
    /\ data' = list
    /\ pc' = "sort"
    /\ UNCHANGED <<envVars, killed, lpc, sigCh, signals, ctxDone, mounts, filtered, i, list,
                   stdout, stderr, statCalls, cancelSnap, renders>>

\* 138-141: case <-ctx.Done()
AnalyzeCancelled ==
    /\ ~killed
    /\ pc = "check"
    /\ i <= Len(filtered)
    /\ ctxDone
    /\ stderr' = Append(stderr, <<"Analysis cancelled">>)
    /\ data' = list
    /\ pc' = "sort"
    /\ UNCHANGED <<envVars, killed, lpc, sigCh, signals, ctxDone, mounts, filtered, i, list,
                   stdout, statCalls, cancelSnap, renders>>

\* AnalyzeProceed without the select on ctx.Done(): the loop goes on to the
\* query whatever the flag says
AnalyzeProceed_NoCheck ==
    /\ ~killed
    /\ pc = "check"
    /\ i <= Len(filtered)
    /\ pc' = "statfs"
    /\ UNCHANGED <<envVars, killed, lpc, sigCh, signals, ctxDone, mounts, filtered, i, list,
                   data, stdout, stderr, statCalls, cancelSnap, renders>>

\* 142-147: default, and the progress line
AnalyzeProceed ==
    /\ ~killed
    /\ pc = "check"
    /\ i <= Len(filtered)
    /\ ~ctxDone
    /\ stderr' = IF (i - 1) % 10 = 0
                 THEN Append(stderr, <<"Processing", i - 1, Len(filtered)>>)
                 ELSE stderr
    /\ pc' = "statfs"
    /\ UNCHANGED <<envVars, killed, lpc, sigCh, signals, ctxDone, mounts, filtered, i, list,
                   data, stdout, statCalls, cancelSnap, renders>>

\* AnalyzeStatfs returning from analyze on a failed query instead of
\* continuing with the next mount
AnalyzeStatfs_AbortOnError ==
    /\ ~killed
    /\ pc = "statfs"
    /\ statCalls' = Append(statCalls, i)
    /\ IF osStatfs[i].err
       THEN /\ stderr' = Append(stderr, <<"Warning: cannot stat", filtered[i][2]>>)
            /\ data' = list
            /\ pc' = "sort"
            /\ UNCHANGED <<list, i>>
       ELSE /\ list' = Append(list, statToFS(filtered[i], osStatfs[i]))
            /\ i' = i + 1
            /\ pc' = "check"
            /\ UNCHANGED <<stderr, data>>
    /\ UNCHANGED <<envVars, killed, lpc, sigCh, signals, ctxDone, mounts, filtered,
                   stdout, cancelSnap, renders>>

\* AnalyzeStatfs looking at the flag again after the query and dropping the
\* answer of a query that cancellation overtook
AnalyzeStatfs_RecheckAfter ==
    /\ ~killed
    /\ pc = "statfs"
    /\ statCalls' = Append(statCalls, i)
    /\ IF osStatfs[i].err
       THEN /\ stderr' = Append(stderr, <<"Warning: cannot stat", filtered[i][2]>>)
            /\ UNCHANGED list
       ELSE /\ list' = IF ctxDone THEN list
                       ELSE Append(list, statToFS(filtered[i], osStatfs[i]))
            /\ UNCHANGED stderr
    /\ i' = i + 1
    /\ pc' = "check"
    /\ UNCHANGED <<envVars, killed, lpc, sigCh, signals, ctxDone, mounts, filtered, data,
                   stdout, cancelSnap, renders>>

\* 149-172: syscall.Statfs and the entry made from its answer
AnalyzeStatfs ==
    /\ ~killed
    /\ pc = "statfs"
    /\ statCalls' = Append(statCalls, i)
    /\ IF osStatfs[i].err
       THEN /\ stderr' = Append(stderr, <<"Warning: cannot stat", filtered[i][2]>>)
            /\ UNCHANGED list
       ELSE /\ list' = Append(list, statToFS(filtered[i], osStatfs[i]))
            /\ UNCHANGED stderr
    /\ i' = i + 1
    /\ pc' = "check"
    /\ UNCHANGED <<envVars, killed, lpc, sigCh, signals, ctxDone, mounts, filtered, data,
                   stdout, cancelSnap, renders>>

(***************************************************************************)
(* main, continued.                                                        *)
(***************************************************************************)
\* 81: sortFS(data, config.SortBy)
MainSort ==
    /\ ~killed
    /\ pc = "sort"
    /\ data' = sortFS(data, config.SortBy, sortImpl)
    /\ pc' = "display"
    /\ UNCHANGED <<envVars, killed, lpc, sigCh, signals, ctxDone, mounts, filtered, i, list,
                   stdout, stderr, statCalls, cancelSnap, renders>>

\* 82: display(data, config)
MainDisplay ==
    /\ ~killed
    /\ pc = "display"
    /\ stdout' = display(data, config)
    /\ renders' = renders + 1
    /\ pc' = "return"
    /\ UNCHANGED <<envVars, killed, lpc, sigCh, signals, ctxDone, mounts, filtered, i, list,
                   data, stderr, statCalls, cancelSnap>>

\* 83, 64: main returns, the deferred cancel runs, the process exits with 0
MainReturn ==
    /\ ~killed
    /\ pc = "return"
    /\ ctxDone' = TRUE
    /\ pc' = "exited"
    /\ UNCHANGED <<envVars, killed, lpc, sigCh, signals, mounts, filtered, i, list, data,
                   stdout, stderr, statCalls, cancelSnap, renders>>

(***************************************************************************)
(* The listener goroutine (src/main.go 66-71) and the signals.             *)
(***************************************************************************)
\* 67-68: make(chan os.Signal, 1), signal.Notify
ListenerNotify ==
    /\ Alive
    /\ lpc = "started"
    /\ lpc' = "waiting"
    /\ UNCHANGED <<envVars, killed, mainVars, sigCh, signals, ctxDone, cancelSnap>>

\* 69: <-sigCh
ListenerReceive ==
    /\ Alive
    /\ lpc = "waiting"
    /\ sigCh > 0
    /\ sigCh' = sigCh - 1
    /\ lpc' = "received"
    /\ UNCHANGED <<envVars, killed, mainVars, signals, ctxDone, cancelSnap>>

\* 70: cancel()
ListenerCancel ==
    /\ Alive
    /\ lpc = "received"
    /\ ctxDone' = TRUE
    /\ lpc' = "end"
    /\ cancelSnap' = [pc |-> pc, i |-> i]
    /\ UNCHANGED <<envVars, killed, mainVars, sigCh, signals>>

\* SIGINT or SIGTERM reaches the process after signal.Notify: the runtime
\* sends it to sigCh without blocking, dropping it when the buffer is full
SignalCaught ==
    /\ Alive
    /\ signals < MaxSignals
    /\ Notified
    /\ signals' = signals + 1
    /\ sigCh' = IF sigCh < 1 THEN sigCh + 1 ELSE sigCh
    /\ UNCHANGED <<envVars, killed, mainVars, lpc, ctxDone, cancelSnap>>

\* SIGINT or SIGTERM reaches the process before signal.Notify has run: the
\* Go runtime's default action ends the process
SignalUncaught ==
    /\ Alive
    /\ signals < MaxSignals
    /\ ~Notified
    /\ signals' = signals + 1
    /\ killed' = TRUE
    /\ UNCHANGED <<envVars, mainVars, lpc, sigCh, ctxDone, cancelSnap>>

(***************************************************************************)
(* The pipeline specification: every mount table of at most MaxMounts      *)
(* lines, every answer of Statfs, every interleaving with the listener.    *)
(***************************************************************************)
Configs ==
    {DefaultConfig,
     [DefaultConfig EXCEPT !.SortBy = "usage", !.OutputFormat = "csv"]}

\* answers of Statfs: an error, or 100 blocks of 4096 bytes with 10 available
Answers == {StatErr, StatOK(NatToBig(100), NatToBig(10), NatToBig(4096))}

\* line k is a mount of a kept type, a mount of an excluded type, or short
LineChoices(k) ==
    {MountLine(k, <<"/">>, <<"e">>), MountLine(k, <<"/", "a">>, <<"p">>), ShortLine(k)}

Tables(max) ==
    UNION {{t \in [1..n -> UNION {LineChoices(k) : k \in 1..n}] :
               \A k \in 1..n : t[k] \in LineChoices(k)} : n \in 0..max}

Init ==
    \E cfg \in Configs, impl \in SortImpls :
        \/ \E kind \in {"missing", "unreadable"} :
               InitWith(cfg, impl, [kind |-> kind, lines |-> <<>>], <<>>)
        \/ \E t \in Tables(MaxMounts) :
               \E ans \in [1..Len(WillAnalyze(cfg, t)) -> Answers] :
                   InitWith(cfg, impl, [kind |-> "ok", lines |-> t], ans)

MainNext ==
    \/ MainStat
    \/ MainSpawn
    \/ MainRead
    \/ MainFilter
    \/ AnalyzeEnd
    \/ AnalyzeProceed
    \/ AnalyzeStatfs
    \/ MainSort
    \/ MainDisplay
    \/ MainReturn

Next ==
    \/ MainNext
    \/ AnalyzeCancelled
    \/ ListenerNotify
    \/ ListenerReceive
    \/ ListenerCancel
    \/ SignalCaught
    \/ SignalUncaught

Spec == Init /\ [][Next]_vars

(***************************************************************************)
(* The specifications of the single stages run the main goroutine alone,   *)
(* from the start of main, on inputs chosen for the stage.                 *)
(***************************************************************************)
\* every sequence over S of length at most n
SeqsUpTo(S, n) == UNION {[1..k -> S] : k \in 0..n}

U64Max == <<255, 255, 255, 255, 255, 255, 255, 255>>

\* Statfs answers for the arithmetic of analyze: zero, small, 2^32, 2^63 + 1
\* and 2^64 - 1 blocks; block sizes 0, 1, 2, 4096 and 2^32
WideAnswers ==
    {StatOK(b, a, z) :
        b \in {<<>>, <<1>>, <<100>>, <<0, 0, 0, 0, 1>>, <<1, 0, 0, 0, 0, 0, 0, 128>>, U64Max},
        a \in {<<>>, <<10>>, <<0, 0, 0, 0, 1>>, U64Max},
        z \in {<<>>, <<1>>, <<2>>, <<0, 16>>, <<0, 0, 0, 0, 1>>}}

InitStat ==
    \E impl \in SortImpls, a \in WideAnswers \cup {StatErr} :
        InitWith(DefaultConfig, impl,
                 [kind |-> "ok", lines |-> <<MountLine(1, <<"/">>, <<"e">>)>>], <<a>>)

SpecStat == InitStat /\ [][MainNext]_vars

\* filesystem types of the filtering specification
FilterTypes == {<<"p">>, <<"t">>, <<"p", "t">>, <<"e">>}

InitFilter ==
    \E ex \in SeqsUpTo({"p", "t", ","}, MaxExcludeLen),
       ts \in SeqsUpTo(FilterTypes, MaxFilterMounts) :
        LET cfg   == [DefaultConfig EXCEPT !.ExcludeTypes = ex]
            lines == [k \in 1..Len(ts) |-> MountLine(k, <<"/", "a">>, ts[k])]
        IN  InitWith(cfg, "pdq", [kind |-> "ok", lines |-> lines],
                     [k \in 1..Len(WillAnalyze(cfg, lines)) |->
                         StatOK(NatToBig(100), NatToBig(10), NatToBig(4096))])

SpecFilter == InitFilter /\ [][MainNext]_vars

\* mounts of the sorting specification: mount point and Statfs answer.
\* /b at 90% of 100 blocks, and /a at 50% of 200 blocks
SortProfiles ==
    {[path |-> <<"/", "b">>, ans |-> StatOK(NatToBig(100), NatToBig(10), NatToBig(4096))],
     [path |-> <<"/", "a">>, ans |-> StatOK(NatToBig(200), NatToBig(100), NatToBig(4096))]}

InitSort ==
    \E by \in {"mount", "usage", "size", "name"}, impl \in SortImpls,
       ps \in SeqsUpTo(SortProfiles, MaxSortLen) :
        InitWith([DefaultConfig EXCEPT !.SortBy = by, !.OutputFormat = "csv"], impl,
                 [kind |-> "ok",
                  lines |-> [k \in 1..Len(ps) |-> MountLine(k, ps[k].path, <<"e">>)]],
                 [k \in 1..Len(ps) |-> ps[k].ans])

SpecSort == InitSort /\ [][MainNext]_vars

\* one mount of 100 blocks whose usage is u percent
InitColor ==
    \E u \in {0, 50, 69, 70, 75, 80, 90, 92, 100}, w \in {50, 70, 80}, c \in {60, 90},
       nc \in BOOLEAN, fmt \in {"table", "csv"} :
        InitWith([DefaultConfig EXCEPT !.WarnThreshold = FNat(w), !.CritThreshold = FNat(c),
                                       !.NoColor = nc, !.OutputFormat = fmt],
                 "pdq",
                 [kind |-> "ok", lines |-> <<MountLine(1, <<"/">>, <<"e">>)>>],
                 <<StatOK(NatToBig(100), NatToBig(100 - u), NatToBig(4096))>>)

SpecColor == InitColor /\ [][MainNext]_vars

(***************************************************************************)
(* Properties of the scan and of cancellation.                             *)
(***************************************************************************)
\* analyze has returned to main
AnalyzeReturned == pc \in {"sort", "display", "return", "exited"}

\* analyze saw the cancelled context and logged it
LoggedCancelled == \E k \in 1..Len(stderr) : stderr[k] = <<"Analysis cancelled">>

\* the listener called cancel while analyze was running
CancelMidScan == cancelSnap.pc \in {"check", "statfs"}

Upto(n) == [k \in 1..n |-> k]

\* the positions among the first n filtered mounts that Statfs answers for
RECURSIVE Successes(_)
Successes(n) ==
    IF n = 0 THEN <<>>
    ELSE IF osStatfs[n].err THEN Successes(n - 1)
    ELSE Append(Successes(n - 1), n)

\* l holds one entry for each of the positions ps, in that order
EntriesOf(l, ps) ==
    /\ Len(l) = Len(ps)
    /\ \A j \in 1..Len(ps) :
        /\ l[j].Device = filtered[ps[j]][1]
        /\ l[j].Mount = filtered[ps[j]][2]
        /\ l[j].Type = filtered[ps[j]][3]

\* C1 as stated: cancellation requested after N of the M mounts were
\* processed, N < M, yields exactly N results, and the program goes on to
\* render and exit normally
C1_ExactlyNResults ==
    (CancelMidScan /\ cancelSnap.i <= Len(filtered) /\ AnalyzeReturned) =>
        /\ Len(list) = cancelSnap.i - 1
        /\ ~killed /\ pc # "fatal"
        /\ (pc = "exited" => renders = 1)

\* the mounts whose cancellation check ran before cancel was called: the
\* N processed ones, and mount N+1 when its query was in flight
CheckedBeforeCancel == IF cancelSnap.pc = "statfs" THEN cancelSnap.i ELSE cancelSnap.i - 1

\* C1 amended: cancellation requested after N mounts were processed yields
\* one result for each of those N mounts whose query succeeded, and one for
\* mount N+1 if its query was in flight at that moment and succeeds; no
\* later mount is queried or contributes; the process is neither killed nor
\* ends fatally from then on, and when it has exited it has rendered, once,
\* exactly the entries analyze returned
C1_CancelMidScan ==
    (CancelMidScan /\ AnalyzeReturned) =>
        /\ statCalls = Upto(CheckedBeforeCancel)
        /\ EntriesOf(list, Successes(CheckedBeforeCancel))
        /\ ~killed /\ pc # "fatal"
        /\ (pc = "exited" => renders = 1 /\ Len(stdout.rows) = Len(list))

\* cancel was called after one of three mounts had been processed, with no
\* query in flight, and the program has rendered the one result and exited
C1_Witness ==
    /\ CancelMidScan
    /\ cancelSnap = [pc |-> "check", i |-> 2]
    /\ Len(filtered) = 3
    /\ Len(list) = 1
    /\ pc = "exited"
    /\ renders = 1

\* C2: when analyze returns without having seen a cancellation, whatever the
\* pattern of failed queries, every filtered mount was queried, in order, and
\* the result holds exactly the mounts whose query succeeded, in input order
C2_FailedQueryNeverAborts ==
    (AnalyzeReturned /\ ~LoggedCancelled) =>
        /\ statCalls = Upto(Len(filtered))
        /\ EntriesOf(list, Successes(Len(filtered)))

\* a failed query in the middle, successful ones before and after it
C2_Witness ==
    /\ AnalyzeReturned /\ ~LoggedCancelled
    /\ Len(filtered) = 3
    /\ ~osStatfs[1].err /\ osStatfs[2].err /\ ~osStatfs[3].err
    /\ Len(list) = 2
    /\ list[2].Device = filtered[3][1]

\* the mount table was read successfully (main got past readMounts)
TableRead == procMounts.kind = "ok" /\ pc \notin {"start", "spawn", "read"}

\* C3 as stated: an execution that read the mount table renders exactly once
\* and then terminates, cancelled or not; one that cannot locate or read the
\* table ends in the fatal state with no later stage run
C3_RenderOnceOrFatal ==
    /\ renders <= 1
    /\ (TableRead /\ ~Alive => pc = "exited" /\ renders = 1)
    /\ (pc = "exited" => TableRead /\ renders = 1)
    /\ (procMounts.kind # "ok" /\ ~Alive /\ ~killed =>
            pc = "fatal" /\ renders = 0 /\ stdout.format = "none" /\ statCalls = <<>>)

\* C10: the flag is never lowered; a check that finds it raised starts no
\* query; queries are started only by a check that found it unset; a query
\* in flight completes and its answer is appended even if the flag was raised
\* meanwhile
C10_FlagSetOnceCheckedPerMount ==
    [][/\ (ctxDone => ctxDone')
       /\ (ctxDone /\ pc = "check" => pc' # "statfs")
       /\ (pc' = "statfs" /\ pc # "statfs" => pc = "check" /\ ~ctxDone)
       /\ (statCalls' # statCalls => pc = "statfs" /\ statCalls' = Append(statCalls, i))
       /\ (pc = "statfs" /\ pc' # "statfs" =>
              /\ statCalls' = Append(statCalls, i)
              /\ pc' = "check"
              /\ (~osStatfs[i].err =>
                     /\ Len(list') = Len(list) + 1
                     /\ list'[Len(list')].Device = filtered[i][1]
                     /\ SubSeq(list', 1, Len(list)) = list))]_vars

\* cancel was called while the query for a mount was in flight, and that
\* mount's entry is in the result analyze returned
C10_Witness ==
    /\ cancelSnap.pc = "statfs"
    /\ AnalyzeReturned
    /\ LoggedCancelled
    /\ \E j \in 1..Len(list) : list[j].Device = filtered[cancelSnap.i][1]

(***************************************************************************)
(* Properties of the single stages.                                        *)
(***************************************************************************)
\* main is past filterMounts
Filtered == procMounts.kind = "ok" /\ pc \notin {"start", "spawn", "read", "filter"}

\* the exclusion list filterMounts was given
ExcludeList == Split(config.ExcludeTypes, ",")

\* C4: filterMounts returns exactly the entries whose type equals no non-empty
\* element of the exclusion list, in input order; a list made of empty
\* elements only excludes nothing
C4_FilterByType ==
    Filtered =>
        /\ filtered = SelectSeq(mounts,
               LAMBDA m : ~\E j \in 1..Len(ExcludeList) :
                               ExcludeList[j] # <<>> /\ ExcludeList[j] = m[3])
        /\ ((\A j \in 1..Len(ExcludeList) : ExcludeList[j] = <<>>) => filtered = mounts)

\* -x ",p" : the list starts with an empty element, its second element
\* excludes the first mount, the second mount is kept
C4_Witness ==
    /\ Filtered
    /\ ExcludeList = << <<>>, <<"p">> >>
    /\ Len(mounts) = 2
    /\ mounts[1][3] = <<"p">>
    /\ mounts[2][3] = <<"e">>
    /\ filtered = <<mounts[2]>>

\* main is past sortFS
Sorted == procMounts.kind = "ok" /\ pc \in {"display", "return", "exited"}

\* position of the entry of device d in l (devices are distinct in a table)
PosOf(l, d) == CHOOSE k \in 1..Len(l) : l[k].Device = d

IsPermutation(l, m) ==
    /\ Len(l) = Len(m)
    /\ \A k \in 1..Len(l) : \E j \in 1..Len(m) : m[j] = l[k]
    /\ \A k \in 1..Len(m) : \E j \in 1..Len(l) : l[j] = m[k]

\* C5 as stated: with key "usage" the output is a permutation of the input,
\* usage is non-increasing, and entries with equal usage keep their order
C5_UsageDescendingStable ==
    (Sorted /\ config.SortBy = "usage") =>
        /\ IsPermutation(list, data)
        /\ \A a, b \in 1..Len(data) :
              a < b =>
                 /\ ~FGt(data[b].Usage, data[a].Usage)
                 /\ (FEq(data[a].Usage, data[b].Usage) =>
                        PosOf(list, data[a].Device) < PosOf(list, data[b].Device))

\* C9: with a key other than "mount", "usage" and "size" the output is the one
\* sortFS gives for "mount", a permutation of the input in ascending order of
\* mount point
C9_UnknownKeyIsMount ==
    (Sorted /\ config.SortBy \notin {"mount", "usage", "size"}) =>
        /\ data = sortFS(list, "mount", sortImpl)
        /\ IsPermutation(list, data)
        /\ \A a, b \in 1..Len(data) : a < b => ~StrLess(data[b].Mount, data[a].Mount)

\* key "name": /b was analysed before /a and comes after it in the output
C9_Witness ==
    /\ Sorted
    /\ config.SortBy = "name"
    /\ Len(list) >= 7
    /\ list[1].Mount = <<"/", "b">>
    /\ list[7].Mount = <<"/", "a">>
    /\ data[1].Mount = <<"/", "a">>
    /\ data # list

\* main is past display, which wrote a table with colors
ColoredTable ==
    /\ pc \in {"return", "exited"}
    /\ stdout.format = "table"
    /\ ~config.NoColor

\* usage of fs >= thr, from the byte counts: 100 * used / total, 0 for an
\* empty filesystem
PercentAtLeast(fs, thr) ==
    IF fs.Total = <<>> THEN thr.n = <<>>
    ELSE BigCmp(BigMul(<<100>>, BigMul(fs.Used, thr.d)), BigMul(thr.n, fs.Total)) >= 0

TierOf(fs, warn, crit) ==
    IF PercentAtLeast(fs, crit) THEN "Critical"
    ELSE IF PercentAtLeast(fs, warn) THEN "High"
    ELSE IF PercentAtLeast(fs, FNat(70)) THEN "Medium"
    ELSE "Low"

\* C6: Critical if usage >= crit, else High if usage >= warn, else Medium if
\* usage >= 70, else Low, whatever warn and crit are
C6_FirstMatchWins ==
    ColoredTable =>
        \A k \in 1..Len(stdout.rows) :
            stdout.rows[k].color =
                Colors[TierOf(stdout.rows[k].fs, config.WarnThreshold, config.CritThreshold)]

\* warn = 80, crit = 90: a usage of 75% is below both and gets the Medium tier
\* from the fixed comparison with 70
C6_Witness ==
    /\ ColoredTable
    /\ config.WarnThreshold = FNat(80)
    /\ config.CritThreshold = FNat(90)
    /\ Len(stdout.rows) = 1
    /\ FEq(stdout.rows[1].fs.Usage, FNat(75))
    /\ stdout.rows[1].color = Colors.Medium

DefaultThresholds ==
    /\ config.WarnThreshold = DefaultConfig.WarnThreshold
    /\ config.CritThreshold = DefaultConfig.CritThreshold

ColorAt(u, color) ==
    \A k \in 1..Len(stdout.rows) :
        FEq(stdout.rows[k].fs.Usage, FNat(u)) => stdout.rows[k].color = color

\* C7 as stated: with warn = 70 and crit = 90, 69% is Low, 75% is Medium and
\* 92% is Critical
C7_DefaultTiersMedium ==
    (ColoredTable /\ DefaultThresholds) =>
        /\ ColorAt(69, Colors.Low)
        /\ ColorAt(75, Colors.Medium)
        /\ ColorAt(92, Colors.Critical)

\* C7 amended: with warn = 70 and crit = 90, 69% is Low, 75% is High and 92% is
\* Critical
C7_DefaultTiers ==
    (ColoredTable /\ DefaultThresholds) =>
        /\ ColorAt(69, Colors.Low)
        /\ ColorAt(75, Colors.High)
        /\ ColorAt(92, Colors.Critical)

\* the default thresholds and a mount at 75%, written in the High color
C7_Witness ==
    /\ ColoredTable
    /\ DefaultThresholds
    /\ Len(stdout.rows) = 1
    /\ FEq(stdout.rows[1].fs.Usage, FNat(75))
    /\ stdout.rows[1].color = Colors.High

\* low 64 bits of full are x
IsLow64Of(x, full) ==
    /\ BigCmp(x, TwoTo64) < 0
    /\ BigCmp(full, x) >= 0
    /\ LET diff == BigSub(full, x)
       IN  \A j \in 1..Len(diff) : j <= 8 => diff[j] = 0

\* C8: every entry has Total = Blocks * Bsize and Free = Bavail * Bsize
\* modulo 2^64, Used = Total - Free modulo 2^64, and a finite Usage of 0
\* when Total is 0
C8_DerivedFields ==
    \A k \in 1..Len(list) :
        LET e == list[k]
            s == osStatfs[Successes(Len(statCalls))[k]]
        IN  /\ IsLow64Of(e.Total, BigMul(s.Blocks, s.Bsize.mag))
            /\ IsLow64Of(e.Free, BigMul(s.Bavail, s.Bsize.mag))
            /\ BigCmp(e.Used, TwoTo64) < 0
            /\ BigAdd(e.Used, e.Free) \in {e.Total, BigAdd(e.Total, TwoTo64)}
            /\ (e.Total = <<>> => e.Usage.k = "fin" /\ e.Usage.n = <<>>)

\* 2^32 blocks of 2^32 bytes: Total wraps to 0 while Free and Used do not,
\* and Usage is 0
C8_Witness ==
    /\ Len(list) = 1
    /\ osStatfs[1].Blocks = <<0, 0, 0, 0, 1>>
    /\ osStatfs[1].Bsize.mag = <<0, 0, 0, 0, 1>>
    /\ list[1].Total = <<>>
    /\ list[1].Free # <<>>
    /\ list[1].Used # <<>>
    /\ FEq(list[1].Usage, FNat(0))

====
